---- MODULE Spec2Model ----
(***************************************************************************)
(* Model of the disk IO core of cratetorrent (src/cratetorrent/src/disk.rs)*)
(*                                                                         *)
(* disk.rs holds the handle (DiskHandle), the command and alert types and  *)
(* the tests with their environment (Env, for_each_block).  The event loop *)
(* of the disk task (Disk::new, Disk::start in disk/io.rs) and the error   *)
(* types (disk/error.rs) are not part of the sources at hand: the          *)
(* definitions that stand for them are written from spec.md, sections 3,   *)
(* 4.2 - 4.6, and are marked "spec:" below.                                *)
(*                                                                         *)
(* Scaling.  The test environment uses 4 pieces of 4 blocks of 0x4000      *)
(* bytes, the last piece 935 bytes short.  The model keeps the shape (a    *)
(* full piece of several blocks and a shorter last piece whose last block  *)
(* is cut by the min() of for_each_block) at a size TLC can enumerate.     *)
(***************************************************************************)
EXTENDS Integers, Sequences, FiniteSets, TLC

(***************************************************************************)
(* Bounds of the model.                                                    *)
(***************************************************************************)
\* number of handle calls (allocate_new_torrent, write_block, shutdown) made
MaxCmds == 4
\* bytes per block (0x4000 in the crate)
BLOCK_LEN == 2
\* how many bytes the last piece is shorter than the others (935 in Env::new)
LastShort == 3
\* number of live clones of the DiskHandle
MaxHandles == 2

(***************************************************************************)
(* Program constants.                                                      *)
(***************************************************************************)
\* u8 arithmetic: `(b % 256) as u8`
ByteMod == 256
\* `b.saturating_add(5)` of test_write_invalid_piece
CorruptAdd == 5
\* a SHA-1 digest is 20 bytes: `pieces.len() * 20`
DigestLen == 20

VARIABLES
    workload,        \* which inputs the producers draw from (fixed by Init)
    handles,         \* number of live DiskHandle clones (each holds a CommandSender)
    sent,            \* number of handle calls made so far
    last,            \* the last handle call and what it returned
    cmd_chan,        \* the command inbox: commands sent and not yet received
    rx_open,         \* the CommandReceiver (Disk::cmd_port) has not been dropped
    disk_pc,         \* position of the disk task: "running", "exiting", "done"
    torrents,        \* spec: the registry TorrentId -> TorrentEntry
    files,           \* the file system: download_path -> file contents
    alert_port,      \* the global alert channel, in emission order
    talerts,         \* the per-torrent alert channels, in emission order
    hist             \* history variables used to state the claims

vars == <<workload, handles, sent, last, cmd_chan, rx_open, disk_pc,
          torrents, files, alert_port, talerts, hist>>

(***************************************************************************)
(* Small helpers.                                                          *)
(***************************************************************************)
Min(a, b) == IF a < b THEN a ELSE b

Range(s) == {s[k] : k \in 1..Len(s)}

RECURSIVE SeqSum(_)
SeqSum(s) == IF s = <<>> THEN 0 ELSE Head(s) + SeqSum(Tail(s))

RECURSIVE Flatten(_)
Flatten(ss) == IF ss = <<>> THEN <<>> ELSE Head(ss) \o Flatten(Tail(ss))

Some(v) == <<v>>
None == <<>>

(***************************************************************************)
(* SHA-1 (sha1 crate), as used by Env::new and by the piece hasher: a      *)
(* function from a byte string to DigestLen bytes.  The model computes a   *)
(* position-weighted checksum, so that the digest depends on every byte    *)
(* and on its position, and unequal inputs may or may not collide.         *)
(***************************************************************************)
RECURSIVE WeightedSum(_, _, _)
WeightedSum(bytes, j, k) ==
    IF j > Len(bytes) THEN 0
    ELSE (j + k) * bytes[j] + WeightedSum(bytes, j + 1, k)

Sha1Digest(bytes) ==
    [k \in 1..DigestLen |-> (Len(bytes) + WeightedSum(bytes, 1, k)) % ByteMod]

(***************************************************************************)
(* The test environment, Env::new.                                         *)
(***************************************************************************)
TorrentIds == {0, 1}

piece_len == 2 * BLOCK_LEN

last_piece_len == piece_len - LastShort

\* pieces[i][b] = ((b + i) % 256) as u8; the model has the first piece and
\* the (shorter) last piece
EnvPieces ==
    << [b \in 1..piece_len |-> ((b - 1) + 0) % ByteMod],
       [b \in 1..last_piece_len |-> ((b - 1) + 1) % ByteMod] >>

\* mutant: the hashes are taken of the corrupted pieces
EnvPieceHashesOfCorrupt ==
    Flatten([i \in 1..Len(EnvPieces) |->
                Sha1Digest([k \in 1..Len(EnvPieces[i]) |->
                               Min(EnvPieces[i][k] + CorruptAdd, ByteMod - 1)])])

\* piece_hashes.extend(Sha1::digest(&piece)) for each piece
EnvPieceHashes == Flatten([i \in 1..Len(EnvPieces) |-> Sha1Digest(EnvPieces[i])])

DownloadPath(id) == <<"/tmp/torrent", id>>

\* mutant: the last piece is declared as long as the others
EnvInfoUniformLast(id) ==
    [ piece_count    |-> Len(EnvPieces),
      piece_len      |-> piece_len,
      last_piece_len |-> piece_len,
      download_len   |-> SeqSum([i \in 1..Len(EnvPieces) |-> Len(EnvPieces[i])]),
      download_path  |-> DownloadPath(id) ]

EnvInfo(id) ==
    [ piece_count    |-> Len(EnvPieces),
      piece_len      |-> piece_len,
      last_piece_len |-> last_piece_len,
      download_len   |-> SeqSum([i \in 1..Len(EnvPieces) |-> Len(EnvPieces[i])]),
      download_path  |-> DownloadPath(id) ]

\* spec: block_count(piece_len) of the crate root, the number of blocks of a piece
block_count(len) == (len + BLOCK_LEN - 1) \div BLOCK_LEN

\* for_each_block: the BlockInfos of a piece, in the order the visitor sees them
RECURSIVE ForEachBlockFrom(_, _, _, _)
ForEachBlockFrom(piece_index, len, block_offset, remaining) ==
    IF remaining = 0 THEN <<>>
    ELSE LET block_len == Min(len - block_offset, BLOCK_LEN)
         IN  << [piece_index |-> piece_index, offset |-> block_offset, len |-> block_len] >>
             \o ForEachBlockFrom(piece_index, len, block_offset + block_len, remaining - 1)

for_each_block(piece_index, len) ==
    ForEachBlockFrom(piece_index, len, 0, block_count(len))

\* mutant: every block carries the first bytes of the piece
SliceFromStart(piece, info) == SubSeq(piece, 1, info.len)

\* `&piece[info.offset as usize..block_end as usize]`
Slice(piece, info) == SubSeq(piece, info.offset + 1, info.offset + info.len)

\* `pieces[index].iter().map(|b| b.saturating_add(5))`
Corrupt(bytes) == [k \in 1..Len(bytes) |-> Min(bytes[k] + CorruptAdd, ByteMod - 1)]

(***************************************************************************)
(* Inputs of the producers.  A run draws all its inputs from one workload: *)
(*   "intact"    one torrent, every block with its own bytes, shutdown     *)
(*   "corrupt"   one torrent, every block intact or corrupted              *)
(*   "pair"      two torrents, every block of both with its own bytes, and *)
(*               the corrupted last piece of the second                    *)
(*   "metadata"  one torrent, good and bad piece hashes, shutdown          *)
(*   "blocks"    one torrent, intact blocks and invalid blocks             *)
(*   "unaligned" one torrent, blocks of piece 0 and a block that overlaps  *)
(*   "handles"   one torrent, handles cloned and dropped, shutdown         *)
(***************************************************************************)
Workloads == {"intact", "corrupt", "pair", "metadata", "blocks", "unaligned", "handles"}

PieceIndices == 0..(Len(EnvPieces) - 1)

LastPiece == Len(EnvPieces) - 1

EnvBlocks(i) == for_each_block(i, Len(EnvPieces[i + 1]))

\* the writes of test_write_all_pieces: every block with its own bytes
IntactWrites(id, indices) ==
    { [id |-> id, info |-> b, data |-> Slice(EnvPieces[b.piece_index + 1], b)] :
        b \in UNION {Range(EnvBlocks(i)) : i \in indices} }

\* the writes of test_write_invalid_piece: every block of the corrupted piece
CorruptWrites(id, indices) ==
    { [id |-> id, info |-> b, data |-> Slice(Corrupt(EnvPieces[b.piece_index + 1]), b)] :
        b \in UNION {Range(EnvBlocks(i)) : i \in indices} }

Zeros(n) == [k \in 1..n |-> 0]

\* blocks that break the precondition of write_block: a piece index that is
\* not a piece, an empty range, a range past the end of the (last) piece, and
\* a payload shorter than the declared length
InvalidWrites(id) ==
    LET n == Len(EnvPieces)
        first == EnvBlocks(0)[1]
    IN  { [id |-> id, info |-> [piece_index |-> n, offset |-> 0, len |-> 1], data |-> Zeros(1)],
          [id |-> id, info |-> [piece_index |-> 0, offset |-> 0, len |-> 0], data |-> <<>>],
          [id |-> id, info |-> [piece_index |-> n - 1, offset |-> 0, len |-> last_piece_len + 1],
                      data |-> Zeros(last_piece_len + 1)],
          [id |-> id, info |-> first, data |-> SubSeq(EnvPieces[1], 1, first.len - 1)] }

\* a block inside piece 0 that is not aligned to BLOCK_LEN, so that it
\* overlaps the first block of for_each_block
UnalignedWrites(id) ==
    { [id |-> id, info |-> [piece_index |-> 0, offset |-> 1, len |-> 1],
                  data |-> SubSeq(EnvPieces[1], 2, 2)] }

WriteInputsOf ==
    [ intact    |-> IntactWrites(0, PieceIndices),
      corrupt   |-> IntactWrites(0, PieceIndices) \cup CorruptWrites(0, PieceIndices),
      pair      |-> IntactWrites(0, PieceIndices) \cup IntactWrites(1, PieceIndices)
                    \cup CorruptWrites(1, {LastPiece}),
      metadata  |-> IntactWrites(0, {LastPiece}),
      blocks    |-> IntactWrites(0, PieceIndices) \cup InvalidWrites(0),
      unaligned |-> IntactWrites(0, {0}) \cup UnalignedWrites(0),
      handles   |-> IntactWrites(0, {LastPiece}) ]

WriteInputs(w) == WriteInputsOf[w]

\* piece_hashes one byte short: piece_hashes.len # piece_count * 20
ShortPieceHashes == SubSeq(EnvPieceHashes, 1, Len(EnvPieceHashes) - 1)

EnvAlloc(id) == [id |-> id, info |-> EnvInfo(id), piece_hashes |-> EnvPieceHashes]

AllocInputsOf ==
    [ intact    |-> {EnvAlloc(0)},
      corrupt   |-> {EnvAlloc(0)},
      pair      |-> {EnvAlloc(id) : id \in TorrentIds},
      metadata  |-> {EnvAlloc(0), [EnvAlloc(0) EXCEPT !.piece_hashes = ShortPieceHashes]},
      blocks    |-> {EnvAlloc(0)},
      unaligned |-> {EnvAlloc(0)},
      handles   |-> {EnvAlloc(0)} ]

AllocInputs(w) == AllocInputsOf[w]

\* the workloads whose producers call shutdown(), and those whose producers
\* clone and drop handles
ShutdownWorkloads == {"intact", "metadata", "handles"}

HandleWorkloads == {"handles"}

(***************************************************************************)
(* Commands (enum Command) as the handle builds them.                      *)
(***************************************************************************)
\* mutant: the command names torrent 0 whatever id the caller gave
NewTorrentCmdFixedId(id, info, piece_hashes) ==
    [type |-> "NewTorrent", id |-> 0, info |-> info, piece_hashes |-> piece_hashes]

NewTorrentCmd(id, info, piece_hashes) ==
    [type |-> "NewTorrent", id |-> id, info |-> info, piece_hashes |-> piece_hashes]

\* mutant: the command names torrent 0 whatever id the caller gave
WriteBlockCmdFixedId(id, info, data) ==
    [type |-> "WriteBlock", id |-> 0, info |-> info, data |-> data]

\* mutant: the block's offset is not passed on
WriteBlockCmdNoOffset(id, info, data) ==
    [type |-> "WriteBlock", id |-> id, info |-> [info EXCEPT !.offset = 0], data |-> data]

WriteBlockCmd(id, info, data) ==
    [type |-> "WriteBlock", id |-> id, info |-> info, data |-> data]

ShutdownCmd == [type |-> "Shutdown"]

(***************************************************************************)
(* UnboundedSender::send followed by map_err(Error::from): the command is  *)
(* appended to the inbox and the call returns Ok, unless the receiver has  *)
(* been dropped, and then the call returns the channel-closed error.       *)
(* Each queued command carries the call it came from (history only).       *)
(***************************************************************************)
\* mutant: the command is put at the front of the inbox
EnqueueFront(chan, msg) == <<msg>> \o chan

Enqueue(chan, msg) == Append(chan, msg)

SendResult == IF rx_open THEN "Ok" ELSE "ChannelClosed"

Send(cmd, call) ==
    /\ handles >= 1
    /\ sent < MaxCmds
    /\ sent' = sent + 1
    /\ cmd_chan' = IF rx_open
                   THEN Enqueue(cmd_chan, [cmd |-> cmd, call |-> call, seq |-> sent + 1])
                   ELSE cmd_chan
    /\ last' = [ op |-> call.op, result |-> SendResult, seq |-> sent + 1,
                 after_shutdown |-> hist.shutdown_called,
                 task_done |-> disk_pc = "done" ]
    /\ UNCHANGED <<workload, handles, rx_open, disk_pc, torrents, files, alert_port, talerts>>

\* DiskHandle::allocate_new_torrent
AllocateNewTorrent ==
    \E inp \in AllocInputs(workload) :
        /\ Send(NewTorrentCmd(inp.id, inp.info, inp.piece_hashes),
                [op |-> "allocate_new_torrent", id |-> inp.id, info |-> inp.info,
                 piece_hashes |-> inp.piece_hashes])
        /\ hist' = [hist EXCEPT !.alloc_calls =
                        IF rx_open THEN Append(@, [seq |-> sent + 1, id |-> inp.id]) ELSE @]

\* DiskHandle::write_block
WriteBlock ==
    \E inp \in WriteInputs(workload) :
        /\ Send(WriteBlockCmd(inp.id, inp.info, inp.data),
                [op |-> "write_block", id |-> inp.id, info |-> inp.info, data |-> inp.data])
        /\ UNCHANGED hist

\* DiskHandle::shutdown
Shutdown ==
    /\ workload \in ShutdownWorkloads
    /\ Send(ShutdownCmd, [op |-> "shutdown"])
    /\ hist' = [hist EXCEPT !.shutdown_called = TRUE,
                            !.shutdown_seq = IF @ = 0 /\ rx_open THEN sent + 1 ELSE @]

\* #[derive(Clone)] on DiskHandle: one more sender of the same inbox
CloneHandle ==
    /\ workload \in HandleWorkloads
    /\ handles >= 1
    /\ handles < MaxHandles
    /\ handles' = handles + 1
    /\ UNCHANGED <<workload, sent, last, cmd_chan, rx_open, disk_pc,
                   torrents, files, alert_port, talerts, hist>>

\* a DiskHandle goes out of scope: its sender is dropped
DropHandle ==
    /\ workload \in HandleWorkloads
    /\ handles >= 1
    /\ handles' = handles - 1
    /\ UNCHANGED <<workload, sent, last, cmd_chan, rx_open, disk_pc,
                   torrents, files, alert_port, talerts, hist>>

(***************************************************************************)
(* spec: the disk task.  Errors (disk/error.rs) are named by their kind.   *)
(***************************************************************************)
\* spec 3: piece_length(i) is L for every piece but the last, and L' for it
PieceLength(info, i) ==
    IF i = info.piece_count - 1 THEN info.last_piece_len ELSE info.piece_len

\* spec 3 / 4.2: the i-th 20-byte slice of the piece hashes
ExpectedDigest(piece_hashes, i) ==
    SubSeq(piece_hashes, i * DigestLen + 1, (i + 1) * DigestLen)

\* spec 4.2 NewTorrent (1): piece_hashes.len == info.piece_count * 20
MetadataValid(info, piece_hashes) ==
    Len(piece_hashes) = info.piece_count * DigestLen

\* spec 4.2 WriteBlock 1: a valid piece, a non-empty range inside the piece,
\* and a payload of the declared length
BlockValid(info, block_info, data) ==
    /\ block_info.piece_index < info.piece_count
    /\ block_info.len >= 1
    /\ block_info.offset + block_info.len <= PieceLength(info, block_info.piece_index)
    /\ Len(data) = block_info.len

\* spec 3: a PieceBuffer: expected length, offset -> payload, bytes received
NewPieceBuffer(len) == [len |-> len, blocks |-> <<>>, received |-> 0]

Overlaps(o1, l1, o2, l2) == o1 < o2 + l2 /\ o2 < o1 + l1

\* spec 4.2 WriteBlock 2 and 4.3: a block whose offset is present is a
\* duplicate and is dropped; the buffer keeps its blocks disjoint and within
\* the piece, so a block that overlaps a buffered one is dropped as well
BufferAccepts(buf, offset, data) ==
    /\ offset \notin DOMAIN buf.blocks
    /\ \A o \in DOMAIN buf.blocks : ~Overlaps(offset, Len(data), o, Len(buf.blocks[o]))
    /\ buf.received + Len(data) <= buf.len

BufferInsert(buf, offset, data) ==
    IF BufferAccepts(buf, offset, data)
    THEN [buf EXCEPT !.blocks = (offset :> data) @@ @, !.received = @ + Len(data)]
    ELSE buf

\* spec 4.2 WriteBlock 3: the sum of buffered block lengths equals piece_length(i)
BufferComplete(buf) == buf.received = buf.len

\* the offsets of a buffer in ascending order
RECURSIVE SortedOffsets(_)
SortedOffsets(offs) ==
    IF offs = {} THEN <<>>
    ELSE LET lo == CHOOSE o \in offs : \A p \in offs : o <= p
         IN  <<lo>> \o SortedOffsets(offs \ {lo})

\* spec 4.2 WriteBlock 3: the blocks concatenated in ascending offset order
Assemble(buf) ==
    LET offs == SortedOffsets(DOMAIN buf.blocks)
    IN  Flatten([k \in 1..Len(offs) |-> buf.blocks[offs[k]]])

\* spec 4.2 / 9: the BlockInfos of a finalised piece (ascending offset order)
BufferBlockInfos(buf, i) ==
    LET offs == SortedOffsets(DOMAIN buf.blocks)
    IN  [k \in 1..Len(offs) |->
            [piece_index |-> i, offset |-> offs[k], len |-> Len(buf.blocks[offs[k]])]]

\* spec 4.4: the piece hasher, a byte-wise comparison with the expected digest
PieceValid(bytes, piece_hashes, i) ==
    Sha1Digest(bytes) = ExpectedDigest(piece_hashes, i)

\* spec 4.5: write_at(file, offset, bytes), a positioned write into a file of
\* fixed size
WriteAt(file, offset, bytes) ==
    [k \in 1..Len(file) |->
        IF offset < k /\ k <= offset + Len(bytes) THEN bytes[k - offset] ELSE file[k]]

\* spec 4.2 NewTorrent (2): the destination file, pre-sized and zero-filled
AllocatedFile(info) == Zeros(info.download_len)

\* spec 3: a TorrentEntry (the file handle is the entry's download_path; the
\* alert sender is the torrent's channel in talerts)
NewTorrentEntry(info, piece_hashes) ==
    [info |-> info, piece_hashes |-> piece_hashes, pieces |-> <<>>]

\* alerts (enum Alert, enum TorrentAlert, struct BatchWrite)
TorrentAllocationOk(id) == [ok |-> TRUE, id |-> id]
TorrentAllocationErr(kind) == [ok |-> FALSE, err |-> kind]
BatchWriteOk(blocks, is_piece_valid) ==
    [ok |-> TRUE, blocks |-> blocks, is_piece_valid |-> is_piece_valid]
BatchWriteErr(kind) == [ok |-> FALSE, err |-> kind]

Remove(f, x) == [y \in DOMAIN f \ {x} |-> f[y]]

(***************************************************************************)
(* spec 4.2 NewTorrent: the new registry and file system and the alert for *)
(* the global channel.  io_ok is the outcome of creating the file.         *)
(***************************************************************************)
HandleNewTorrent(reg, fs, id, info, piece_hashes, io_ok) ==
    IF id \in DOMAIN reg
    THEN [torrents |-> reg, files |-> fs, alert |-> TorrentAllocationErr("AlreadyExists")]
    ELSE IF ~MetadataValid(info, piece_hashes)
    THEN [torrents |-> reg, files |-> fs, alert |-> TorrentAllocationErr("InvalidMetadata")]
    ELSE IF ~io_ok
    THEN [torrents |-> reg, files |-> Remove(fs, info.download_path),
          alert |-> TorrentAllocationErr("Io")]
    ELSE [torrents |-> (id :> NewTorrentEntry(info, piece_hashes)) @@ reg,
          files |-> (info.download_path :> AllocatedFile(info)) @@ fs,
          alert |-> TorrentAllocationOk(id)]

(***************************************************************************)
(* spec 4.2 WriteBlock: the new entry of the torrent, its new file and the *)
(* alerts (none or one) for its channel.  io_ok is the outcome of the      *)
(* positioned write.                                                       *)
(***************************************************************************)
FinalisePiece(entry, file, i, buf, io_ok) ==
    LET bytes == Assemble(buf)
        dropped == [entry EXCEPT !.pieces = Remove(@, i)]
    IN  IF ~PieceValid(bytes, entry.piece_hashes, i)
        THEN [entry |-> dropped, file |-> file,
              alerts |-> << BatchWriteOk(<<>>, Some(FALSE)) >>]
        ELSE IF ~io_ok
        THEN [entry |-> dropped, file |-> file, alerts |-> << BatchWriteErr("Io") >>]
        ELSE [entry |-> dropped,
              file |-> WriteAt(file, i * entry.info.piece_len, bytes),
              alerts |-> << BatchWriteOk(BufferBlockInfos(buf, i), Some(TRUE)) >>]

HandleWriteBlock(entry, file, block_info, data, io_ok) ==
    LET i == block_info.piece_index
    IN  IF ~BlockValid(entry.info, block_info, data)
        THEN [entry |-> [entry EXCEPT !.pieces = Remove(@, i)], file |-> file,
              alerts |-> << BatchWriteErr("InvalidBlock") >>]
        ELSE LET old == IF i \in DOMAIN entry.pieces THEN entry.pieces[i]
                        ELSE NewPieceBuffer(PieceLength(entry.info, i))
                 buf == BufferInsert(old, block_info.offset, data)
             IN  IF BufferComplete(buf)
                 THEN FinalisePiece(entry, file, i, buf, io_ok)
                 ELSE [entry |-> [entry EXCEPT !.pieces = (i :> buf) @@ @],
                       file |-> file, alerts |-> <<>>]

(***************************************************************************)
(* History variables (hist).  They record what the claims speak about and  *)
(* never influence the program's state:                                    *)
(*   shutdown_called  shutdown() has been called on some handle            *)
(*   shutdown_seq     call number of the first Shutdown that was enqueued  *)
(*   alloc_calls      the allocate_new_torrent calls that returned Ok      *)
(*   last_seq         call number of the last command the task received    *)
(*   intact[id][i]    blocks of piece i written with their own bytes       *)
(*   other[id][i]     piece i got any other write (corrupted, repeated...) *)
(*   committed[id]    pieces that have been committed to the file          *)
(*   finalised[id]    the pieces in the order in which they became complete*)
(*   solo[id]         entry, file and alerts of torrent id in a disk task   *)
(*                    that is sent the calls made for id and no others      *)
(* intact and other count the writes the task received for a torrent that  *)
(* was in the registry.                                                    *)
(***************************************************************************)
HistInit ==
    [ shutdown_called |-> FALSE,
      shutdown_seq    |-> 0,
      alloc_calls     |-> <<>>,
      last_seq        |-> 0,
      intact          |-> [id \in TorrentIds |-> [i \in PieceIndices |-> {}]],
      other           |-> [id \in TorrentIds |-> [i \in PieceIndices |-> FALSE]],
      committed       |-> [id \in TorrentIds |-> {}],
      finalised       |-> [id \in TorrentIds |-> <<>>],
      solo            |-> <<>> ]

IsIntactWrite(call) ==
    [id |-> call.id, info |-> call.info, data |-> call.data]
        \in IntactWrites(call.id, PieceIndices)

\* the block completes its piece: with it the buffered bytes reach the
\* length of the piece
Completes(entry, block_info, data) ==
    LET i == block_info.piece_index
    IN  /\ BlockValid(entry.info, block_info, data)
        /\ BufferComplete(BufferInsert(
                IF i \in DOMAIN entry.pieces THEN entry.pieces[i]
                ELSE NewPieceBuffer(PieceLength(entry.info, i)),
                block_info.offset, data))

\* hist after the task handled the write of `call` for the entry `entry` of
\* the registry, with the alerts `alerts`
HistAfterWrite(h, call, seq, alerts, entry) ==
    LET id == call.id
        i == call.info.piece_index
        fresh == IsIntactWrite(call) /\ call.info \notin h.intact[id][i]
        commits == alerts # <<>> /\ alerts[1].ok /\ alerts[1].is_piece_valid = Some(TRUE)
    IN  [h EXCEPT !.last_seq = seq,
                  !.finalised = IF Completes(entry, call.info, call.data)
                                THEN [@ EXCEPT ![id] = Append(@, i)] ELSE @,
                  !.intact = IF i \in PieceIndices /\ fresh
                             THEN [@ EXCEPT ![id][i] = @ \cup {call.info}] ELSE @,
                  !.other = IF i \in PieceIndices /\ ~fresh
                            THEN [@ EXCEPT ![id][i] = TRUE] ELSE @,
                  !.committed = IF commits THEN [@ EXCEPT ![id] = @ \cup {i}] ELSE @]

\* solo after a disk task that serves the caller's torrent alone handled the
\* allocation `call`, and after it handled the write `call`
SoloAfterNewTorrent(solo, call, io_ok) ==
    LET r == HandleNewTorrent(<<>>, <<>>, call.id, call.info, call.piece_hashes, io_ok)
    IN  IF call.id \notin DOMAIN solo /\ r.alert.ok
        THEN (call.id :> [entry |-> r.torrents[call.id],
                          file |-> r.files[call.info.download_path],
                          alerts |-> <<>>]) @@ solo
        ELSE solo

SoloAfterWrite(solo, call, io_ok) ==
    IF call.id \notin DOMAIN solo THEN solo
    ELSE LET r == HandleWriteBlock(solo[call.id].entry, solo[call.id].file,
                                   call.info, call.data, io_ok)
         IN  [solo EXCEPT ![call.id] = [entry |-> r.entry, file |-> r.file,
                                        alerts |-> @.alerts \o r.alerts]]

(***************************************************************************)
(* spec 4.2: the event loop, one command per step.  An alert is recorded   *)
(* with the call that caused it (history only).                            *)
(***************************************************************************)
Emitted(alert, m) == [alert |-> alert, by |-> m.call, seq |-> m.seq]

Receives(type) ==
    /\ disk_pc = "running"
    /\ cmd_chan # <<>>
    /\ Head(cmd_chan).cmd.type = type
    /\ cmd_chan' = Tail(cmd_chan)

DiskNewTorrent ==
    /\ Receives("NewTorrent")
    /\ \E io_ok \in BOOLEAN :
        LET m == Head(cmd_chan)
            r == HandleNewTorrent(torrents, files, m.cmd.id, m.cmd.info,
                                  m.cmd.piece_hashes, io_ok)
        IN  /\ torrents' = r.torrents
            /\ files' = r.files
            /\ alert_port' = Append(alert_port, Emitted(r.alert, m))
            /\ talerts' = IF r.alert.ok THEN (m.cmd.id :> <<>>) @@ talerts ELSE talerts
            /\ hist' = [hist EXCEPT !.last_seq = m.seq,
                                    !.solo = SoloAfterNewTorrent(@, m.call, io_ok)]
    /\ UNCHANGED <<workload, handles, sent, last, rx_open, disk_pc>>

DiskWriteBlock ==
    /\ Receives("WriteBlock")
    /\ \E io_ok \in BOOLEAN :
       LET m == Head(cmd_chan)
           id == m.cmd.id
           solo == SoloAfterWrite(hist.solo, m.call, io_ok)
       IN  IF id \notin DOMAIN torrents
           THEN /\ hist' = [hist EXCEPT !.last_seq = m.seq, !.solo = solo]
                /\ UNCHANGED <<torrents, files, talerts>>
           ELSE LET path == torrents[id].info.download_path
                    r == HandleWriteBlock(torrents[id], files[path], m.cmd.info,
                                          m.cmd.data, io_ok)
                IN  /\ torrents' = [torrents EXCEPT ![id] = r.entry]
                    /\ files' = [files EXCEPT ![path] = r.file]
                    /\ talerts' = [talerts EXCEPT ![id] =
                            @ \o [k \in 1..Len(r.alerts) |-> Emitted(r.alerts[k], m)]]
                    /\ hist' = IF m.call.id \in DOMAIN torrents
                               THEN [HistAfterWrite(hist, m.call, m.seq, r.alerts,
                                                    torrents[m.call.id])
                                        EXCEPT !.solo = solo]
                               ELSE [hist EXCEPT !.last_seq = m.seq, !.solo = solo]
    /\ UNCHANGED <<workload, handles, sent, last, rx_open, disk_pc, alert_port>>

\* spec 4.2 Shutdown: drain nothing, terminate the loop
DiskShutdown ==
    /\ Receives("Shutdown")
    /\ disk_pc' = "exiting"
    /\ hist' = [hist EXCEPT !.last_seq = Head(cmd_chan).seq]
    /\ UNCHANGED <<workload, handles, sent, last, rx_open,
                   torrents, files, alert_port, talerts>>

\* spec 5: every handle is dropped and the inbox is empty: recv() yields
\* None and the loop exits
DiskInboxClosed ==
    /\ disk_pc = "running"
    /\ cmd_chan = <<>>
    /\ handles = 0
    /\ disk_pc' = "exiting"
    /\ UNCHANGED <<workload, handles, sent, last, cmd_chan, rx_open,
                   torrents, files, alert_port, talerts, hist>>

(***************************************************************************)
(* spawn: `task::spawn(async move { disk.start().await })`.  The task owns *)
(* the Disk, so when start() returns the Disk is dropped: the command      *)
(* receiver closes, the commands still queued are dropped, and the         *)
(* registry goes with it.                                                  *)
(***************************************************************************)
\* mutant: the Disk outlives its task, so the receiver stays open
KeptReceiver == TRUE

DroppedReceiver == FALSE

TaskExit ==
    /\ disk_pc = "exiting"
    /\ disk_pc' = "done"
    /\ rx_open' = DroppedReceiver
    /\ cmd_chan' = <<>>
    /\ torrents' = <<>>
    /\ UNCHANGED <<workload, handles, sent, last, files, alert_port, talerts, hist>>

(***************************************************************************)
(* spawn(): Disk::new() makes the inbox and the global alert channel; one  *)
(* handle exists; nothing is allocated and no file exists (Env::new        *)
(* removes a left-over file).                                              *)
(***************************************************************************)
Init ==
    /\ workload \in Workloads
    /\ handles = 1
    /\ sent = 0
    /\ last = [op |-> "none", result |-> "none", seq |-> 0,
               after_shutdown |-> FALSE, task_done |-> FALSE]
    /\ cmd_chan = <<>>
    /\ rx_open = TRUE
    /\ disk_pc = "running"
    /\ torrents = <<>>
    /\ files = <<>>
    /\ alert_port = <<>>
    /\ talerts = <<>>
    /\ hist = HistInit

Next ==
    \/ AllocateNewTorrent
    \/ WriteBlock
    \/ Shutdown
    \/ CloneHandle
    \/ DropHandle
    \/ DiskNewTorrent
    \/ DiskWriteBlock
    \/ DiskShutdown
    \/ DiskInboxClosed
    \/ TaskExit

Spec == Init /\ [][Next]_vars


(***************************************************************************)
(* The claims.  A global alert e of alert_port answers the call e.by; a    *)
(* per-torrent alert e of talerts[id] was caused by the call e.by.         *)
(***************************************************************************)
\* the torrent of call `e.by` had been allocated by an alert before position k
AllocatedBefore(k) ==
    \E j \in 1..(k - 1) :
        alert_port[j].by.id = alert_port[k].by.id /\ alert_port[j].alert.ok

\* C1 as stated: for every torrent id, exactly the first NewTorrent for the
\* id produces TorrentAllocation(Ok) and every later one produces
\* TorrentAllocation(Err(AlreadyExists)).
C1_FirstAlwaysSucceeds ==
    \A k \in 1..Len(alert_port) :
        LET id == alert_port[k].by.id
            first == \A j \in 1..(k - 1) : alert_port[j].by.id # id
        IN  alert_port[k].alert = IF first THEN TorrentAllocationOk(id)
                                  ELSE TorrentAllocationErr("AlreadyExists")

\* C1 (amended): for every torrent id, a NewTorrent for the id produces
\* TorrentAllocation(Ok) with that id only if no earlier one did; it fails
\* with InvalidMetadata exactly when its piece hashes have the wrong length
\* and otherwise succeeds or fails with Io; and every NewTorrent after the
\* one that succeeded produces TorrentAllocation(Err(AlreadyExists)).
C1_AllocationUniqueness ==
    \A k \in 1..Len(alert_port) :
        LET e == alert_port[k]
            id == e.by.id
        IN  IF AllocatedBefore(k)
            THEN e.alert = TorrentAllocationErr("AlreadyExists")
            ELSE IF ~MetadataValid(e.by.info, e.by.piece_hashes)
            THEN e.alert = TorrentAllocationErr("InvalidMetadata")
            ELSE e.alert \in {TorrentAllocationOk(id), TorrentAllocationErr("Io")}

\* C1 witness: a torrent was allocated after a failed first attempt, and a
\* later NewTorrent for it was answered with AlreadyExists.
C1_Witness ==
    \E i, j, k \in 1..Len(alert_port) :
        /\ i < j /\ j < k
        /\ alert_port[i].by.id = alert_port[j].by.id
        /\ alert_port[j].by.id = alert_port[k].by.id
        /\ ~alert_port[i].alert.ok
        /\ alert_port[j].alert.ok
        /\ alert_port[k].alert = TorrentAllocationErr("AlreadyExists")

\* the per-torrent alerts of torrent id caused by a write to piece i
PieceAlerts(id, i) ==
    IF id \in DOMAIN talerts
    THEN SelectSeq(talerts[id], LAMBDA e : e.by.info.piece_index = i)
    ELSE <<>>

\* every block of piece i of torrent id has been written once with its own
\* bytes, and piece i got no other write
WrittenIntact(id, i) ==
    /\ id \in DOMAIN talerts
    /\ hist.intact[id][i] = Range(EnvBlocks(i))
    /\ ~hist.other[id][i]

\* the bytes of the file of torrent id where piece i lives, in file system fs
FileRegionIn(fs, id, i) ==
    LET info == EnvInfo(id)
    IN  SubSeq(fs[info.download_path], i * info.piece_len + 1,
               i * info.piece_len + PieceLength(info, i))

FileRegion(id, i) == FileRegionIn(files, id, i)

\* an alert BatchWrite(Ok) with Some(true) that lists every block of piece i
IsValidAlertFor(alert, i) ==
    /\ alert.ok
    /\ alert.is_piece_valid = Some(TRUE)
    /\ Range(EnvBlocks(i)) \subseteq Range(alert.blocks)

\* C2 as stated: if every block of piece i of an allocated torrent is
\* written with the correct payload, exactly one per-torrent alert is emitted
\* for piece i, and it is BatchWrite(Ok) with is_piece_valid = Some(true) and
\* a blocks list with every BlockInfo of the piece.
C2_AlwaysValid ==
    \A id \in TorrentIds : \A i \in PieceIndices :
        WrittenIntact(id, i) =>
            /\ Len(PieceAlerts(id, i)) = 1
            /\ IsValidAlertFor(PieceAlerts(id, i)[1].alert, i)

\* C2 (amended): if every block of piece i of an allocated torrent is
\* written with the correct payload, exactly one per-torrent alert is emitted
\* for piece i; it is BatchWrite(Ok) with is_piece_valid = Some(true) and a
\* blocks list with every BlockInfo of the piece, and the piece is then in
\* the file, unless the write to the file failed, and then it is
\* BatchWrite(Err(Io)).
C2_PieceValidityRoundTrip ==
    \A id \in TorrentIds : \A i \in PieceIndices :
        WrittenIntact(id, i) =>
            /\ Len(PieceAlerts(id, i)) = 1
            /\ LET alert == PieceAlerts(id, i)[1].alert
               IN  \/ IsValidAlertFor(alert, i) /\ FileRegion(id, i) = EnvPieces[i + 1]
                   \/ alert = BatchWriteErr("Io")

\* C2 witness: the blocks of piece 0 (more than one block) of a torrent were
\* all written intact and the alert reports the piece valid.
C2_Witness ==
    \E id \in TorrentIds :
        /\ WrittenIntact(id, 0)
        /\ Len(EnvBlocks(0)) > 1
        /\ Len(PieceAlerts(id, 0)) = 1
        /\ IsValidAlertFor(PieceAlerts(id, 0)[1].alert, 0)

(***************************************************************************)
(* The step in which the disk task receives a WriteBlock for a torrent of  *)
(* the registry, and what that step is about to do.                        *)
(***************************************************************************)
HeadCall == Head(cmd_chan).call

\* the task is about to receive the command of a write_block call for a
\* torrent of the registry
WriteAhead ==
    /\ disk_pc = "running"
    /\ cmd_chan # <<>>
    /\ HeadCall.op = "write_block"
    /\ HeadCall.id \in DOMAIN torrents

\* the buffer of the piece once the block of that call is in it
BufferAhead ==
    LET entry == torrents[HeadCall.id]
        i == HeadCall.info.piece_index
        old == IF i \in DOMAIN entry.pieces THEN entry.pieces[i]
               ELSE NewPieceBuffer(PieceLength(entry.info, i))
    IN  BufferInsert(old, HeadCall.info.offset, HeadCall.data)

\* the block of that call completes its piece
CompletionAhead ==
    /\ WriteAhead
    /\ BlockValid(torrents[HeadCall.id].info, HeadCall.info, HeadCall.data)
    /\ BufferComplete(BufferAhead)

\* ... and the assembled piece does not have the digest of the piece
InvalidCompletionAhead ==
    /\ CompletionAhead
    /\ Sha1Digest(Assemble(BufferAhead)) # Sha1Digest(EnvPieces[HeadCall.info.piece_index + 1])

\* this step adds exactly the alert `alert` to the channel of torrent id
EmitsOnly(id, alert) ==
    /\ Len(talerts'[id]) = Len(talerts[id]) + 1
    /\ SubSeq(talerts'[id], 1, Len(talerts[id])) = talerts[id]
    /\ talerts'[id][Len(talerts'[id])].alert = alert
    /\ \A t \in DOMAIN talerts \ {id} : talerts'[t] = talerts[t]
    /\ alert_port' = alert_port

\* the step is the disk task receiving the command at the head of the inbox
TaskReceives == disk_pc = "running" /\ cmd_chan # <<>> /\ cmd_chan' = Tail(cmd_chan)

RejectedAlert(id, i) ==
    \E k \in 1..Len(PieceAlerts(id, i)) :
        PieceAlerts(id, i)[k].alert = BatchWriteOk(<<>>, Some(FALSE))

C4_FailsRightAfterShutdown ==
    last.after_shutdown => last.result = "ChannelClosed"

\* C4 (amended): a send on any clone of the handle fails with the
\* channel-closed error exactly when the disk task has exited and dropped its
\* receiver; a send made after shutdown() but before the task has received
\* the Shutdown returns Ok, and the task never receives a command enqueued
\* behind the Shutdown.
C4_ShutdownClosesInbox ==
    /\ last.op # "none" => (last.result = "ChannelClosed" <=> last.task_done)
    /\ hist.shutdown_seq # 0 => hist.last_seq <= hist.shutdown_seq
    /\ disk_pc = "done" => ~rx_open /\ cmd_chan = <<>>

\* C4 witness: a write_block made after shutdown(), when the task had
\* exited, returned the channel-closed error.
C4_Witness ==
    /\ last.op = "write_block"
    /\ last.after_shutdown
    /\ last.task_done
    /\ last.result = "ChannelClosed"

\* the step leaves everything of the disk task but piece i of torrent id as
\* it was: the registry's keys, the other torrents, the torrent's storage
\* info and hashes, the buffers of its other pieces, and the global channel
OnlyPieceTouched(id, i) ==
    /\ DOMAIN torrents' = DOMAIN torrents
    /\ \A t \in DOMAIN torrents \ {id} : torrents'[t] = torrents[t]
    /\ torrents'[id].info = torrents[id].info
    /\ torrents'[id].piece_hashes = torrents[id].piece_hashes
    /\ \A j \in (DOMAIN torrents[id].pieces \cup DOMAIN torrents'[id].pieces) \ {i} :
         /\ j \in DOMAIN torrents[id].pieces
         /\ j \in DOMAIN torrents'[id].pieces
         /\ torrents'[id].pieces[j] = torrents[id].pieces[j]
    /\ \A t \in DOMAIN talerts \ {id} : talerts'[t] = talerts[t]
    /\ alert_port' = alert_port

\* the write_block call at the head of the inbox replays a block of a piece
\* that has been committed: a block that was written before, with its bytes
ReplayAhead ==
    /\ WriteAhead
    /\ IsIntactWrite(HeadCall)
    /\ HeadCall.info.piece_index \in hist.committed[HeadCall.id]
    /\ HeadCall.info \in hist.intact[HeadCall.id][HeadCall.info.piece_index]

\* C5 as stated: replaying a block after its piece has been committed emits
\* no alert and changes nothing of the disk task: registry, piece buffers and
\* file contents are as before.
C5_ReplayChangesNothing ==
    [][ IF ReplayAhead /\ TaskReceives
        THEN /\ torrents' = torrents
             /\ files' = files
             /\ talerts' = talerts
             /\ alert_port' = alert_port
        ELSE TRUE ]_vars

\* C5 (amended): a block replayed after its piece has been committed is
\* handled like a first write of the block.  It leaves the registry's keys,
\* the other torrents, the buffers of the other pieces, the global channel
\* and the contents of the files as they were; but it is put into the buffer
\* of its piece, a fresh one if the piece has none, and emits no alert
\* unless it completes the piece again, and then one more alert is emitted
\* and the buffer is dropped.
C5_ReplayAfterCommit ==
    [][ IF ReplayAhead /\ TaskReceives
        THEN LET id == HeadCall.id
                 i == HeadCall.info.piece_index
             IN  /\ OnlyPieceTouched(id, i)
                 /\ files' = files
                 /\ IF BufferComplete(BufferAhead)
                    THEN /\ i \notin DOMAIN torrents'[id].pieces
                         /\ Len(talerts'[id]) = Len(talerts[id]) + 1
                         /\ SubSeq(talerts'[id], 1, Len(talerts[id])) = talerts[id]
                         /\ talerts'[id][Len(talerts'[id])].alert
                              \in { BatchWriteOk(BufferBlockInfos(BufferAhead, i), Some(TRUE)),
                                    BatchWriteOk(<<>>, Some(FALSE)),
                                    BatchWriteErr("Io") }
                    ELSE /\ i \in DOMAIN torrents'[id].pieces
                         /\ torrents'[id].pieces[i] = BufferAhead
                         /\ talerts'[id] = talerts[id]
                 /\ i \notin DOMAIN torrents[id].pieces =>
                        \/ /\ i \in DOMAIN torrents'[id].pieces
                           /\ HeadCall.info.offset \in DOMAIN torrents'[id].pieces[i].blocks
                        \/ Len(talerts'[id]) = Len(talerts[id]) + 1
        ELSE TRUE ]_vars

\* C5 witness: piece 0 of a torrent has been committed, and a block of it
\* that was replayed afterwards sits in a fresh buffer of piece 0.
C5_Witness ==
    \E id \in DOMAIN torrents :
        /\ 0 \in hist.committed[id]
        /\ hist.other[id][0]
        /\ 0 \in DOMAIN torrents[id].pieces
        /\ \E b \in Range(EnvBlocks(0)) :
             /\ b.offset \in DOMAIN torrents[id].pieces[0].blocks
             /\ torrents[id].pieces[0].blocks[b.offset] = Slice(EnvPieces[1], b)

\* the alerts of torrent id that report a finalised piece (every alert but
\* BatchWrite(Err(InvalidBlock)), which reports a rejected block)
CompletionAlerts(id) ==
    SelectSeq(talerts[id], LAMBDA e : e.alert # BatchWriteErr("InvalidBlock"))

\* C6: the disk task receives the commands in the order in which they were
\* enqueued; on every per-torrent channel the alerts stand in the order of
\* the commands that caused them, none twice; and the alerts that report a
\* finalised piece name, one for one, the pieces in the order in which they
\* became complete.
C6_PerTorrentOrdering ==
    /\ \A k \in 1..Len(cmd_chan) :
         /\ cmd_chan[k].seq > hist.last_seq
         /\ k > 1 => cmd_chan[k].seq > cmd_chan[k - 1].seq
    /\ \A id \in DOMAIN talerts :
         /\ \A k \in 2..Len(talerts[id]) : talerts[id][k].seq > talerts[id][k - 1].seq
         /\ \A k \in 1..Len(talerts[id]) :
              /\ talerts[id][k].seq <= hist.last_seq
              /\ talerts[id][k].by.id = id
         /\ [k \in 1..Len(CompletionAlerts(id)) |->
                CompletionAlerts(id)[k].by.info.piece_index] = hist.finalised[id]

\* C6 witness: the last piece of a torrent became complete before piece 0,
\* and the torrent's channel holds the alert of the last piece, then that of
\* piece 0.
C6_Witness ==
    \E id \in DOMAIN talerts :
        /\ hist.finalised[id] = <<LastPiece, 0>>
        /\ Len(talerts[id]) = 2
        /\ talerts[id][1].by.info.piece_index = LastPiece
        /\ talerts[id][2].by.info.piece_index = 0

\* the torrent of the registry, its file and its alerts are those of a disk
\* task that was sent the calls made for that torrent and no others
SoloMatches ==
    /\ DOMAIN hist.solo = DOMAIN talerts
    /\ disk_pc # "done" => DOMAIN torrents = DOMAIN hist.solo
    /\ \A id \in DOMAIN hist.solo :
         /\ id \in DOMAIN torrents => torrents[id] = hist.solo[id].entry
         /\ files[DownloadPath(id)] = hist.solo[id].file
         /\ [k \in 1..Len(talerts[id]) |-> talerts[id][k].alert] = hist.solo[id].alerts

\* C7: with two torrents allocated, the step in which the task receives a
\* write_block made for torrent A leaves the entry (piece buffers), the file
\* and the alert channel of every other torrent and the global channel as
\* they were; and after every step each torrent's entry, file and alert
\* sequence are those of a disk task that never saw the other torrent's
\* commands.
C7_NoCrossTalk ==
    [][ /\ SoloMatches'
        /\ IF WriteAhead /\ TaskReceives /\ DOMAIN torrents = TorrentIds
           THEN LET a == HeadCall.id
                IN  /\ alert_port' = alert_port
                    /\ \A b \in TorrentIds \ {a} :
                         /\ torrents'[b] = torrents[b]
                         /\ talerts'[b] = talerts[b]
                         /\ files'[DownloadPath(b)] = files[DownloadPath(b)]
           ELSE TRUE ]_vars

\* C7 witness: both torrents are allocated, a write for torrent 1 was
\* handled before a write for torrent 0; torrent 1 got the alert of a
\* rejected piece and its file is still zero-filled, torrent 0 got the alert
\* of a valid piece.
C7_Witness ==
    /\ DOMAIN torrents = TorrentIds
    /\ \E k \in 1..Len(talerts[0]), j \in 1..Len(talerts[1]) :
         /\ talerts[0][k].alert.ok /\ talerts[0][k].alert.is_piece_valid = Some(TRUE)
         /\ talerts[1][j].alert = BatchWriteOk(<<>>, Some(FALSE))
         /\ talerts[0][k].seq > talerts[1][j].seq
         /\ files[DownloadPath(1)] = Zeros(Len(files[DownloadPath(1)]))
         /\ files[DownloadPath(0)] # Zeros(Len(files[DownloadPath(0)]))

(***************************************************************************)
(* The step in which the disk task receives a NewTorrent, and the alert    *)
(* that a step added to a channel.                                         *)
(***************************************************************************)
\* the task is about to receive the command of an allocate_new_torrent call
AllocAhead ==
    /\ disk_pc = "running"
    /\ cmd_chan # <<>>
    /\ HeadCall.op = "allocate_new_torrent"

\* this step added one alert to the global channel / to the channel of id
GlobalGrew ==
    /\ Len(alert_port') = Len(alert_port) + 1
    /\ SubSeq(alert_port', 1, Len(alert_port)) = alert_port

TorrentGrew(id) ==
    /\ Len(talerts'[id]) = Len(talerts[id]) + 1
    /\ SubSeq(talerts'[id], 1, Len(talerts[id])) = talerts[id]

\* this step reported an error: an allocation error on the global channel
\* or a write error on the channel of the torrent written to
ReportsError ==
    \/ /\ AllocAhead /\ TaskReceives /\ GlobalGrew
       /\ ~alert_port'[Len(alert_port')].alert.ok
    \/ /\ WriteAhead /\ TaskReceives /\ TorrentGrew(HeadCall.id)
       /\ ~talerts'[HeadCall.id][Len(talerts'[HeadCall.id])].alert.ok

\* C8 as stated: a command that results in an error is reported as an
\* alert on the appropriate channel, the task is still running, and the
\* state the later commands are processed in (registry with its piece
\* buffers, files) is the state as if the command had not been sent.
C8_AsIfNotSent ==
    [][ IF ReportsError
        THEN /\ disk_pc' = "running"
             /\ torrents' = torrents
             /\ files' = files
        ELSE TRUE ]_vars

\* C8 (amended): the allocation of an id of the registry is answered
\* AlreadyExists, that of a new id with bad hashes InvalidMetadata, and
\* otherwise Ok or Io; an invalid block is answered InvalidBlock and only a
\* failed write of a complete, valid piece Io.  Each error is one alert on
\* the appropriate channel (global for allocations, the torrent's for
\* writes), the task stays running and keeps the rest of the inbox.  An
\* allocation error leaves registry and alert channels as they were (Io
\* leaves no file at the path); a write error leaves the files, the other
\* pieces' buffers and the other torrents as they were, but drops the
\* buffer of the piece it is about.
C8_ErrorsNeverStopTheTask ==
    [][ IF TaskReceives
        THEN /\ IF AllocAhead
                THEN LET a == alert_port'[Len(alert_port')].alert
                         c == HeadCall
                     IN  /\ GlobalGrew
                         /\ IF c.id \in DOMAIN torrents
                            THEN a = TorrentAllocationErr("AlreadyExists")
                            ELSE IF ~MetadataValid(c.info, c.piece_hashes)
                            THEN a = TorrentAllocationErr("InvalidMetadata")
                            ELSE a \in {TorrentAllocationOk(c.id), TorrentAllocationErr("Io")}
                         /\ IF ~a.ok
                            THEN /\ disk_pc' = "running"
                                 /\ torrents' = torrents
                                 /\ talerts' = talerts
                                 /\ files' = IF a.err = "Io"
                                             THEN Remove(files, c.info.download_path)
                                             ELSE files
                            ELSE TRUE
                ELSE TRUE
             /\ IF WriteAhead
                THEN LET c == HeadCall
                         id == c.id
                         i == c.info.piece_index
                         invalid == ~BlockValid(torrents[id].info, c.info, c.data)
                         a == talerts'[id][Len(talerts'[id])].alert
                     IN  /\ IF invalid
                            THEN TorrentGrew(id) /\ a = BatchWriteErr("InvalidBlock")
                            ELSE TRUE
                         /\ IF TorrentGrew(id) /\ ~a.ok
                            THEN /\ EmitsOnly(id, a)
                                 /\ IF invalid THEN a.err = "InvalidBlock"
                                    ELSE /\ a.err = "Io"
                                         /\ CompletionAhead /\ ~InvalidCompletionAhead
                                 /\ disk_pc' = "running"
                                 /\ files' = files
                                 /\ torrents' = [torrents EXCEPT ![id].pieces = Remove(@, i)]
                            ELSE TRUE
                ELSE TRUE
        ELSE TRUE ]_vars

\* C8 witness: the write that completed piece 0 (more than one block)
\* failed with Io, the task went on to commit the last piece of the same
\* torrent, and it is still running.
C8_Witness ==
    /\ disk_pc = "running"
    /\ Len(EnvBlocks(0)) > 1
    /\ \E id \in DOMAIN talerts :
         \E k \in 1..Len(talerts[id]), j \in 1..Len(talerts[id]) :
            /\ k < j
            /\ talerts[id][k].alert = BatchWriteErr("Io")
            /\ talerts[id][k].by.info.piece_index = 0
            /\ IsValidAlertFor(talerts[id][j].alert, LastPiece)

\* C9: when the task receives the NewTorrent of a call whose id is in the
\* registry, the registry (every entry's storage info, hashes and piece
\* buffers), the per-torrent alert channels and the files are all left as
\* they were, and the one thing emitted is AlreadyExists on the global
\* channel; a NewTorrent whose id is not in the registry is never answered
\* AlreadyExists.
C9_ReAllocationLeavesState ==
    [][ IF AllocAhead /\ TaskReceives
        THEN LET a == alert_port'[Len(alert_port')].alert
             IN  /\ GlobalGrew
                 /\ IF HeadCall.id \in DOMAIN torrents
                    THEN /\ a = TorrentAllocationErr("AlreadyExists")
                         /\ torrents' = torrents
                         /\ talerts' = talerts
                         /\ files' = files
                         /\ disk_pc' = disk_pc
                    ELSE a # TorrentAllocationErr("AlreadyExists")
        ELSE TRUE ]_vars

\* C9 witness: the task has just answered AlreadyExists to the second
\* allocation of a torrent that has a partly filled piece buffer.
C9_Witness ==
    /\ alert_port # <<>>
    /\ LET e == alert_port[Len(alert_port)]
       IN  /\ e.alert = TorrentAllocationErr("AlreadyExists")
           /\ e.seq = hist.last_seq
           /\ e.by.id \in DOMAIN torrents
           /\ torrents[e.by.id].pieces # <<>>

(***************************************************************************)
(* The allocate_new_torrent calls that returned Ok (hist.alloc_calls) and  *)
(* their answers on the global channel.                                    *)
(***************************************************************************)
\* the call numbered seq has an alert on the global channel / has its
\* command in the inbox
Answered(seq) == \E k \in 1..Len(alert_port) : alert_port[k].seq = seq

Queued(seq) == \E k \in 1..Len(cmd_chan) : cmd_chan[k].seq = seq

\* the global channel holds TorrentAllocation alerts only, each for an
\* allocate_new_torrent call that returned Ok, at most one per call, in the
\* order in which the calls were enqueued
AnswersInOrder ==
    /\ \A k \in 1..Len(alert_port) :
         /\ alert_port[k].by.op = "allocate_new_torrent"
         /\ \E j \in 1..Len(hist.alloc_calls) :
              /\ hist.alloc_calls[j].seq = alert_port[k].seq
              /\ hist.alloc_calls[j].id = alert_port[k].by.id
         /\ alert_port[k].alert.ok => alert_port[k].alert.id = alert_port[k].by.id
    /\ \A k \in 2..Len(alert_port) : alert_port[k].seq > alert_port[k - 1].seq

\* C10 as stated: every allocate_new_torrent call that returned Ok gets
\* exactly one TorrentAllocation alert, in enqueue order; so once the task
\* has ended, no such call is without its alert.
C10_EveryCallAnswered ==
    /\ AnswersInOrder
    /\ disk_pc = "done" =>
         \A j \in 1..Len(hist.alloc_calls) : Answered(hist.alloc_calls[j].seq)

\* C10 (amended): the alerts of the global channel answer the
\* allocate_new_torrent calls that returned Ok, at most one per call and in
\* enqueue order; a call is answered exactly when the task has received its
\* command, and until then the command is in the inbox, unless the task
\* ended first: a call enqueued behind a Shutdown returns Ok and is never
\* answered, and these are the only ones.
C10_EveryAllocationAnswered ==
    /\ AnswersInOrder
    /\ \A j \in 1..Len(hist.alloc_calls) :
         LET seq == hist.alloc_calls[j].seq
             behind_shutdown == hist.shutdown_seq # 0 /\ seq > hist.shutdown_seq
         IN  /\ Answered(seq) <=> seq <= hist.last_seq
             /\ Answered(seq) => ~behind_shutdown /\ ~Queued(seq)
             /\ ~Answered(seq) =>
                  \/ Queued(seq) /\ disk_pc # "done"
                  \/ behind_shutdown /\ disk_pc \in {"exiting", "done"}
             /\ disk_pc = "done" => (Answered(seq) <=> ~behind_shutdown)

\* C10 witness: the task has ended after a Shutdown; two allocations were
\* answered in order, and one more, enqueued behind the Shutdown with the
\* call returning Ok, has no alert.
C10_Witness ==
    /\ disk_pc = "done"
    /\ Len(alert_port) = 2
    /\ Len(hist.alloc_calls) = 3
    /\ Answered(hist.alloc_calls[1].seq) /\ Answered(hist.alloc_calls[2].seq)
    /\ ~Answered(hist.alloc_calls[3].seq)
    /\ hist.alloc_calls[3].seq > hist.shutdown_seq

\* what the task still has to do before it has ended: the commands of the
\* inbox, then leaving the loop, then dropping the Disk
TaskRemaining ==
    Len(cmd_chan) + (IF disk_pc = "running" THEN 2 ELSE IF disk_pc = "exiting" THEN 1 ELSE 0)

\* the guards of the task's steps: a command to receive, or a closed and
\* empty inbox to notice, or the loop left and the Disk to drop
DiskStepPossible ==
    \/ /\ disk_pc = "running" /\ cmd_chan # <<>>
       /\ Head(cmd_chan).cmd.type \in {"NewTorrent", "WriteBlock", "Shutdown"}
    \/ disk_pc = "running" /\ cmd_chan = <<>> /\ handles = 0
    \/ disk_pc = "exiting"

\* C11: once every clone of the handle has been dropped, no handle comes
\* back and nothing more is enqueued; as long as the task has not ended one
\* of its steps is possible, and every step brings it nearer to its end (so
\* the task, which the runtime keeps polling, eventually exits its loop);
\* and it ends as it does after a Shutdown: the receiver is dropped and the
\* inbox and the registry are gone with it.
C11_DroppedHandlesTerminate ==
    [][ IF handles = 0
        THEN /\ handles' = 0
             /\ sent' = sent
             /\ TaskRemaining' < TaskRemaining
             /\ disk_pc # "done" => DiskStepPossible
             /\ disk_pc' = "done" => ~rx_open' /\ cmd_chan' = <<>> /\ torrents' = <<>>
        ELSE TRUE ]_vars

\* C11 witness: shutdown() was never called, every handle has been dropped
\* with commands still queued, the task has received them all and has
\* ended.
C11_Witness ==
    /\ handles = 0
    /\ ~hist.shutdown_called
    /\ disk_pc = "done"
    /\ ~rx_open
    /\ sent > 1
    /\ hist.last_seq = sent

(***************************************************************************)
(* The last piece, shorter than the others.                                *)
(***************************************************************************)
\* the task is about to receive a valid block of the last piece of a
\* torrent whose last piece is shorter than the uniform piece length
LastPieceWriteAhead ==
    /\ WriteAhead
    /\ last_piece_len < piece_len
    /\ HeadCall.info.piece_index = LastPiece
    /\ BlockValid(torrents[HeadCall.id].info, HeadCall.info, HeadCall.data)

\* the alert this step added to the channel of the torrent written to
NewAlert == talerts'[HeadCall.id][Len(talerts'[HeadCall.id])].alert

\* the bytes buffered for the piece, with the block of that call, have the
\* digest expected for the last piece
LastDigestMatches ==
    Sha1Digest(Assemble(BufferAhead)) = ExpectedDigest(EnvPieceHashes, LastPiece)

\* C12 as stated: the last piece is finalised when the buffered bytes reach
\* the last-piece length, and it is committed if and only if its assembled
\* length is the last-piece length and its digest matches.
C12_CommittedIffDigestMatches ==
    [][ IF LastPieceWriteAhead /\ TaskReceives
        THEN LET id == HeadCall.id
                 buf == BufferAhead
             IN  /\ TorrentGrew(id) <=> buf.received = last_piece_len
                 /\ IF TorrentGrew(id)
                    THEN /\ Len(Assemble(buf)) = last_piece_len
                         /\ (NewAlert.ok /\ NewAlert.is_piece_valid = Some(TRUE))
                               <=> LastDigestMatches
                    ELSE TRUE
        ELSE TRUE ]_vars

\* C12 (amended): a valid block of the last piece finalises the piece
\* exactly when the buffered bytes reach the last-piece length (not the
\* uniform piece length).  The piece is then committed (alert Some(true),
\* its bytes in the file at i*L) only if the assembled bytes have the
\* last-piece length and the digest matches; with a matching digest the
\* outcome is the commit or, when the write fails, Err(Io) with the file
\* untouched; with a mismatching digest it is Some(false) with the file
\* untouched.
C12_LastPieceLength ==
    [][ IF LastPieceWriteAhead /\ TaskReceives
        THEN LET id == HeadCall.id
                 buf == BufferAhead
             IN  /\ TorrentGrew(id) <=> buf.received = last_piece_len
                 /\ IF TorrentGrew(id)
                    THEN /\ Len(Assemble(buf)) = last_piece_len
                         /\ IF LastDigestMatches
                            THEN \/ /\ NewAlert = BatchWriteOk(BufferBlockInfos(buf, LastPiece),
                                                               Some(TRUE))
                                    /\ FileRegionIn(files', id, LastPiece) = Assemble(buf)
                                 \/ /\ NewAlert = BatchWriteErr("Io")
                                    /\ files' = files
                            ELSE /\ NewAlert = BatchWriteOk(<<>>, Some(FALSE))
                                 /\ files' = files
                    ELSE files' = files
        ELSE TRUE ]_vars

\* C12 witness: the last piece is shorter than the others, it has been
\* committed with its own bytes, and piece 0 has not been written.
C12_Witness ==
    /\ last_piece_len < piece_len
    /\ \E id \in DOMAIN talerts :
         /\ hist.committed[id] = {LastPiece}
         /\ hist.finalised[id] = <<LastPiece>>
         /\ FileRegion(id, LastPiece) = EnvPieces[LastPiece + 1]
         /\ Len(FileRegion(id, LastPiece)) = last_piece_len
         /\ FileRegion(id, 0) = Zeros(piece_len)

\* C13: after a torrent has been allocated and the only piece finalised for
\* it was rejected as invalid, no file exists at its download path (the
\* last assertion of test_write_invalid_piece).
C13_NoFileAfterRejectedPiece ==
    \A id \in DOMAIN talerts :
        ( /\ hist.finalised[id] = <<0>>
          /\ Len(talerts[id]) = 1
          /\ talerts[id][1].alert = BatchWriteOk(<<>>, Some(FALSE)) )
        => DownloadPath(id) \notin DOMAIN files

\* the sum of the lengths of the blocks of a buffer
BufferedBytes(buf) ==
    LET offs == SortedOffsets(DOMAIN buf.blocks)
    IN  SeqSum([k \in 1..Len(offs) |-> Len(buf.blocks[offs[k]])])

\* C14: in every state every torrent has at most one buffer per piece
\* index, each for a piece of the torrent and of that piece's length; in
\* every buffer no two blocks overlap, every block lies inside the piece,
\* and the sum of the block lengths is the received count, which is more
\* than nothing and less than the piece's length (a buffer that reaches it
\* is discarded in the same step).
C14_PieceBufferInvariant ==
    \A id \in DOMAIN torrents :
        /\ DOMAIN torrents[id].pieces \subseteq PieceIndices
        /\ \A i \in DOMAIN torrents[id].pieces :
             LET buf == torrents[id].pieces[i]
             IN  /\ buf.len = Len(EnvPieces[i + 1])
                 /\ \A o \in DOMAIN buf.blocks :
                      /\ Len(buf.blocks[o]) >= 1
                      /\ o >= 0 /\ o + Len(buf.blocks[o]) <= Len(EnvPieces[i + 1])
                 /\ \A o1, o2 \in DOMAIN buf.blocks :
                      o1 < o2 => o1 + Len(buf.blocks[o1]) <= o2
                 /\ BufferedBytes(buf) = buf.received
                 /\ buf.received > 0
                 /\ buf.received < Len(EnvPieces[i + 1])

\* C14 witness: the buffer of piece 0 holds the first block alone, although
\* the task has also received a block that overlaps it, which the buffer
\* refused; nothing was reported.
C14_Witness ==
    \E id \in DOMAIN torrents :
        /\ 0 \in DOMAIN torrents[id].pieces
        /\ DOMAIN torrents[id].pieces[0].blocks = {0}
        /\ torrents[id].pieces[0].received = BLOCK_LEN
        /\ hist.other[id][0]
        /\ hist.intact[id][0] = {EnvBlocks(0)[1]}
        /\ hist.last_seq = 3
        /\ talerts[id] = <<>>
        /\ workload = "unaligned"

\* C15: whenever the block the task receives brings the buffered bytes of
\* its piece to the piece length, that step emits exactly one alert, on the
\* torrent's channel: Ok with Some(true) and the blocks of the buffer, Ok
\* with Some(false) and no blocks, or Err(Io); an Ok alert never has
\* is_piece_valid = None; and the step removes the buffer of the piece
\* whatever the outcome and leaves the other buffers alone.  A valid block
\* that does not complete its piece emits nothing.
C15_FinalisationSingleShot ==
    [][ IF WriteAhead /\ TaskReceives
           /\ BlockValid(torrents[HeadCall.id].info, HeadCall.info, HeadCall.data)
        THEN LET id == HeadCall.id
                 i == HeadCall.info.piece_index
             IN  IF CompletionAhead
                 THEN /\ TorrentGrew(id)
                      /\ EmitsOnly(id, NewAlert)
                      /\ NewAlert \in { BatchWriteOk(BufferBlockInfos(BufferAhead, i), Some(TRUE)),
                                        BatchWriteOk(<<>>, Some(FALSE)),
                                        BatchWriteErr("Io") }
                      /\ NewAlert.ok => NewAlert.is_piece_valid # None
                      /\ torrents'[id].pieces = Remove(torrents[id].pieces, i)
                 ELSE /\ talerts' = talerts
                      /\ alert_port' = alert_port
                      /\ i \in DOMAIN torrents'[id].pieces
        ELSE TRUE ]_vars

\* C15 witness: piece 0 (more than one block) was finalised once, with
\* Err(Io); its buffer was removed, and a block of piece 0 that came later
\* is alone in a new buffer.
C15_Witness ==
    \E id \in DOMAIN torrents :
        /\ Len(EnvBlocks(0)) > 1
        /\ hist.finalised[id] = <<0>>
        /\ Len(talerts[id]) = 1
        /\ talerts[id][1].alert = BatchWriteErr("Io")
        /\ 0 \in DOMAIN torrents[id].pieces
        /\ torrents[id].pieces[0].received = BLOCK_LEN
        /\ talerts[id][1].seq < hist.last_seq

\* the block of a write_block call breaks the precondition: a piece index
\* that is not a piece, an empty range, a range past the end of the piece,
\* or a payload whose length is not the declared length
InvalidCall(c) ==
    \/ c.info.piece_index \notin PieceIndices
    \/ c.info.len < 1
    \/ c.info.offset + c.info.len > Len(EnvPieces[c.info.piece_index + 1])
    \/ Len(c.data) # c.info.len

\* C16: when the task receives, for a torrent of the registry, a block that
\* breaks the precondition in one of these four ways, the step emits exactly
\* BatchWrite(Err(InvalidBlock)) on that torrent's channel and nothing
\* elsewhere, writes nothing to any file, discards what was buffered for
\* the piece named (the piece is failed), and leaves the buffers of all
\* other pieces and the other torrents as they were.
C16_InvalidBlockHandling ==
    [][ IF WriteAhead /\ TaskReceives /\ InvalidCall(HeadCall)
        THEN LET id == HeadCall.id
                 i == HeadCall.info.piece_index
             IN  /\ EmitsOnly(id, BatchWriteErr("InvalidBlock"))
                 /\ files' = files
                 /\ torrents' = [torrents EXCEPT ![id].pieces = Remove(@, i)]
                 /\ disk_pc' = "running"
        ELSE TRUE ]_vars

\* C16 witness: a block of piece 0 was buffered, then a block of piece 0
\* whose payload is shorter than declared was answered InvalidBlock; the
\* buffer of piece 0 is gone and the file is still zero-filled.
C16_Witness ==
    \E id \in DOMAIN torrents :
        /\ Len(talerts[id]) = 1
        /\ talerts[id][1].alert = BatchWriteErr("InvalidBlock")
        /\ talerts[id][1].by.info.piece_index = 0
        /\ Len(talerts[id][1].by.data) # talerts[id][1].by.info.len
        /\ talerts[id][1].seq = hist.last_seq
        /\ hist.intact[id][0] # {}
        /\ 0 \notin DOMAIN torrents[id].pieces
        /\ files[DownloadPath(id)] = Zeros(Len(files[DownloadPath(id)]))

(***************************************************************************)
(* The step in which the task receives a valid block for a piece that has  *)
(* a buffer.                                                               *)
(***************************************************************************)
\* the buffer of the piece of that call, as it is before the step
BufferNow == torrents[HeadCall.id].pieces[HeadCall.info.piece_index]

\* the task is about to receive a valid block whose piece has a buffer
BufferedWriteAhead ==
    /\ WriteAhead
    /\ BlockValid(torrents[HeadCall.id].info, HeadCall.info, HeadCall.data)
    /\ HeadCall.info.piece_index \in DOMAIN torrents[HeadCall.id].pieces

\* ... and the offset of the block is already in that buffer
DuplicateAhead ==
    /\ BufferedWriteAhead
    /\ HeadCall.info.offset \in DOMAIN BufferNow.blocks

\* ... or the block lies clear of every block of that buffer
NewBlockAhead ==
    /\ BufferedWriteAhead
    /\ \A o \in DOMAIN BufferNow.blocks :
         ~Overlaps(HeadCall.info.offset, HeadCall.info.len, o, Len(BufferNow.blocks[o]))

\* C17: when the task receives a valid block whose offset is already in the
\* buffer of its piece, the step changes no buffer (contents and received
\* count stay), no file and no channel; a valid block that lies clear of
\* the buffered ones does advance the piece: it is buffered with its length
\* added to the count, or it completes the piece, which is reported.  So
\* the piece completes after the same distinct blocks, with or without
\* duplicates.
C17_DuplicatesInProgress ==
    [][ IF TaskReceives /\ DuplicateAhead
        THEN /\ torrents' = torrents
             /\ files' = files
             /\ talerts' = talerts
             /\ alert_port' = alert_port
        ELSE IF TaskReceives /\ NewBlockAhead
        THEN LET id == HeadCall.id
                 i == HeadCall.info.piece_index
             IN  IF BufferNow.received + HeadCall.info.len = BufferNow.len
                 THEN TorrentGrew(id) /\ i \notin DOMAIN torrents'[id].pieces
                 ELSE /\ talerts' = talerts
                      /\ torrents'[id].pieces[i].received
                           = BufferNow.received + HeadCall.info.len
                      /\ torrents'[id].pieces[i].blocks
                           = (HeadCall.info.offset :> HeadCall.data) @@ BufferNow.blocks
        ELSE TRUE ]_vars

\* C17 witness: the first block of piece 0 was sent twice and the task has
\* received both; the buffer of piece 0 holds that block once, and nothing
\* was reported.
C17_Witness ==
    \E id \in DOMAIN torrents :
        /\ workload = "intact"
        /\ hist.last_seq = 3
        /\ hist.intact[id][0] = {EnvBlocks(0)[1]}
        /\ hist.other[id][0]
        /\ 0 \in DOMAIN torrents[id].pieces
        /\ torrents[id].pieces[0].blocks = (0 :> Slice(EnvPieces[1], EnvBlocks(0)[1]))
        /\ torrents[id].pieces[0].received = EnvBlocks(0)[1].len
        /\ talerts[id] = <<>>

(***************************************************************************)
(* The blocks of one piece arriving once each, intact, in any order.       *)
(***************************************************************************)
\* the task is about to receive a block of for_each_block with its own
\* bytes, for a piece that so far got only such blocks, each once
PieceBlockAhead ==
    /\ WriteAhead
    /\ IsIntactWrite(HeadCall)
    /\ ~hist.other[HeadCall.id][HeadCall.info.piece_index]
    /\ HeadCall.info \notin hist.intact[HeadCall.id][HeadCall.info.piece_index]

\* bytes is the blocks of buf laid out by offset: each block at its offset
LaidOutByOffset(bytes, buf) ==
    /\ Len(bytes) = buf.len
    /\ \A o \in DOMAIN buf.blocks : \A k \in 1..Len(buf.blocks[o]) :
         bytes[o + k] = buf.blocks[o][k]

\* C18: whichever block of a piece arrives when, the step that receives a
\* block other than the last missing one emits nothing and writes nothing;
\* the step that receives the last missing one, whichever block that is,
\* emits the single alert: the assembled piece is the blocks laid out in
\* ascending offset order, which is the piece, and the outcome is Ok with
\* Some(true), the blocks of the piece reported and the piece written to
\* its place in the file (or Err(Io) and nothing written when the write
\* fails), the same for every arrival order.
C18_ArrivalOrderIndependence ==
    [][ IF TaskReceives /\ PieceBlockAhead
        THEN LET id == HeadCall.id
                 i == HeadCall.info.piece_index
                 got == hist.intact[id][i] \cup {HeadCall.info}
             IN  IF got # Range(EnvBlocks(i))
                 THEN /\ talerts' = talerts
                      /\ files' = files
                      /\ DOMAIN torrents'[id].pieces[i].blocks = {b.offset : b \in got}
                 ELSE /\ TorrentGrew(id)
                      /\ EmitsOnly(id, NewAlert)
                      /\ LaidOutByOffset(Assemble(BufferAhead), BufferAhead)
                      /\ Assemble(BufferAhead) = EnvPieces[i + 1]
                      /\ \/ /\ NewAlert.ok
                            /\ NewAlert.is_piece_valid = Some(TRUE)
                            /\ Len(NewAlert.blocks) = Len(EnvBlocks(i))
                            /\ Range(NewAlert.blocks) = Range(EnvBlocks(i))
                            /\ FileRegionIn(files', id, i) = EnvPieces[i + 1]
                         \/ /\ NewAlert = BatchWriteErr("Io")
                            /\ files' = files
        ELSE TRUE ]_vars

\* C18 witness: the blocks of piece 0 (more than one) arrived with the
\* first block last; the one alert was caused by that block and reports
\* the piece valid, and the piece is in the file.
C18_Witness ==
    \E id \in DOMAIN talerts :
        /\ Len(EnvBlocks(0)) > 1
        /\ WrittenIntact(id, 0)
        /\ Len(talerts[id]) = 1
        /\ talerts[id][1].by.info = EnvBlocks(0)[1]
        /\ IsValidAlertFor(talerts[id][1].alert, 0)
        /\ FileRegion(id, 0) = EnvPieces[1]

(***************************************************************************)
(* The destination file.                                                   *)
(***************************************************************************)
\* the positions (from 1) of piece i in the file
PiecePositions(i) == (i * piece_len + 1)..(i * piece_len + Len(EnvPieces[i + 1]))

\* every torrent that was allocated has its file, of the download length;
\* and a file whose pieces have all been committed is the pieces in index
\* order
FileLayout(fs, h, allocated) ==
    \A id \in allocated :
        /\ DownloadPath(id) \in DOMAIN fs
        /\ Len(fs[DownloadPath(id)]) = Len(Flatten(EnvPieces))
        /\ h.committed[id] = PieceIndices => fs[DownloadPath(id)] = Flatten(EnvPieces)

C20_UnknownTorrentDropped ==
    [][ IF TaskReceives /\ HeadCall.op = "write_block" /\ HeadCall.id \notin DOMAIN torrents
        THEN /\ torrents' = torrents
             /\ files' = files
             /\ talerts' = talerts
             /\ alert_port' = alert_port
             /\ disk_pc' = "running"
        ELSE IF TaskReceives /\ AllocAhead /\ HeadCall.id \in DOMAIN torrents' \ DOMAIN torrents
        THEN /\ torrents'[HeadCall.id].pieces = <<>>
             /\ talerts'[HeadCall.id] = <<>>
             /\ files'[DownloadPath(HeadCall.id)] = Zeros(Len(Flatten(EnvPieces)))
        ELSE TRUE ]_vars

\* C20 witness: the first allocation of a torrent failed, a block was then
\* written for its id and received by the task, and a second allocation
\* succeeded: the torrent has no buffer and no alert, and its file is
\* zero-filled.
C20_Witness ==
    /\ ~hist.shutdown_called
    /\ hist.last_seq = 3
    /\ Len(hist.alloc_calls) = 2
    /\ hist.alloc_calls[1].seq = 1 /\ hist.alloc_calls[2].seq = 3
    /\ Len(alert_port) = 2
    /\ ~alert_port[1].alert.ok
    /\ alert_port[2].alert.ok
    /\ LET id == alert_port[2].by.id
       IN  /\ alert_port[1].by.id = id
           /\ torrents[id].pieces = <<>>
           /\ talerts[id] = <<>>
           /\ files[DownloadPath(id)] = Zeros(Len(Flatten(EnvPieces)))

====
